---- MODULE Spec2Model ----
(***************************************************************************)
(* Model of odbc-iter's row conversion layer (src/value_row.rs): the       *)
(* TryFromValueRow implementations for ValueRow, (), every T: TryFromValue *)
(* and the tuples of arity 1..12 generated by try_from_tuple!, together    *)
(* with the two error enums and their Error::source implementations.       *)
(***************************************************************************)
EXTENDS Integers, Sequences, FiniteSets, TLC

VARIABLES values, schema, target, result, calls, src, pc

vars == <<values, schema, target, result, calls, src, pc>>

-----------------------------------------------------------------------------
(* Bounds of the enumerated inputs.                                        *)

\* rows of every content are enumerated up to this length
MaxRowLen == 3
\* tuple targets of every mix of position types are enumerated up to this arity
MaxTupleEnum == 2
\* schemas are enumerated up to this length
MaxSchemaLen == 1

\* largest tuple arity try_from_tuple! is invoked for (Tuple12)
MaxArity == 12
\* number of values of the u16 `expected` field of RowConvertTupleError
U16Modulus == 65536

-----------------------------------------------------------------------------
(* Data model: Value, Option<Value>, ValueRow, ColumnType.                 *)

Integer(n) == [some |-> TRUE, kind |-> "Integer", n |-> n]
Bit(b) == [some |-> TRUE, kind |-> "Bit", n |-> IF b THEN 1 ELSE 0]
None == [some |-> FALSE]

Entries == {None, Integer(42), Integer(-666), Bit(TRUE)}

SeqsUpTo(S, n) == UNION {[1..k -> S] : k \in 0..n}

Repeat(e, n) == [i \in 1..n |-> e]

\* a row of Integer(42) whose position k (1-based) holds e instead; k = 0: none
Spiked(n, k, e) == [i \in 1..n |-> IF i = k THEN e ELSE Integer(42)]

\* rows wider than the enumerated ones, up to one column more than Tuple12
WideRows ==
    {Spiked(n, k, e) : n \in (MaxRowLen + 1)..(MaxArity + 1),
                       k \in 0..(MaxArity + 1),
                       e \in {None, Integer(-666)}}

\* rows whose length is around the range of u16
HugeRows == {Repeat(None, n) : n \in {U16Modulus - 1, U16Modulus, U16Modulus + 1}}

ValueRow == SeqsUpTo(Entries, MaxRowLen) \cup WideRows \cup HugeRows

ColumnType ==
    {[value_type |-> "Integer", nullable |-> TRUE, name |-> "a"],
     [value_type |-> "Bit", nullable |-> FALSE, name |-> "b"]}

Schemas == SeqsUpTo(ColumnType, MaxSchemaLen)

-----------------------------------------------------------------------------
(* Target types.                                                           *)

Bare(b) == [base |-> b, opt |-> FALSE]
Optional(b) == [base |-> b, opt |-> TRUE]

ScalarTypes == {Bare(b) : b \in {"i64", "u64", "bool"}} \cup
               {Optional(b) : b \in {"i64", "u64", "bool"}}

TupleTypes ==
    (SeqsUpTo(ScalarTypes, MaxTupleEnum) \ {<<>>}) \cup
    {Repeat(t, n) : t \in ScalarTypes, n \in (MaxTupleEnum + 1)..MaxArity}

Targets ==
    {[strategy |-> "ValueRow"], [strategy |-> "Unit"]} \cup
    {[strategy |-> "Scalar", ty |-> t] : t \in ScalarTypes} \cup
    {[strategy |-> "Tuple", tys |-> ts] : ts \in TupleTypes}

-----------------------------------------------------------------------------
(* Results.                                                                *)

Pending == [tag |-> "Pending"]
Panic == [tag |-> "Panic"]
Err(e) == [tag |-> "Err", err |-> e]
OkRow(r) == [tag |-> "Ok", row |-> r]
OkScalar(v) == [tag |-> "Ok", scalar |-> v]
OkTuple(t) == [tag |-> "Ok", tuple |-> t]

NoSource == [present |-> FALSE]
SomeSource(e) == [present |-> TRUE, cause |-> e]

-----------------------------------------------------------------------------
(* Scalar Conversion Capability (crate::value::TryFromValue).              *)

\* the value a conversion of n to type ty yields
Converted(ty, n) ==
    IF ty.opt THEN [ty |-> ty, none |-> FALSE, n |-> n] ELSE [ty |-> ty, n |-> n]

Absent(ty) == [ty |-> ty, none |-> TRUE]

TryFromValue(ty, v) ==
    IF ~v.some
    THEN IF ty.opt
         THEN [ok |-> TRUE, val |-> Absent(ty)]
         ELSE [ok |-> FALSE, err |-> [variant |-> "UnexpectedNullValue", name |-> ty.base]]
    ELSE IF (v.kind = "Bit") # (ty.base = "bool")
         THEN [ok |-> FALSE, err |-> [variant |-> "UnexpectedType", name |-> ty.base]]
         ELSE IF ty.base = "u64" /\ v.n < 0
              THEN [ok |-> FALSE, err |-> [variant |-> "ValueOutOfRange", name |-> ty.base]]
              ELSE [ok |-> TRUE, val |-> Converted(ty, v.n)]

-----------------------------------------------------------------------------
(* RowConvertError and the strategies for ValueRow, () and T: TryFromValue *)

UnexpectedNullValue(t) ==
    [enum |-> "RowConvertError", variant |-> "UnexpectedNullValue", name |-> t]
UnexpectedValue ==
    [enum |-> "RowConvertError", variant |-> "UnexpectedValue"]
UnexpectedNumberOfColumns(e, g) ==
    [enum |-> "RowConvertError", variant |-> "UnexpectedNumberOfColumns",
     expected |-> e, got |-> g]
ValueConvertError(e) ==
    [enum |-> "RowConvertError", variant |-> "ValueConvertError", cause |-> e]

\* variant of source() that drops the wrapped cause
RowConvertError_source_dropped(e) == NoSource

\* impl Error for RowConvertError
RowConvertError_source(e) ==
    IF e.variant \in {"UnexpectedNullValue", "UnexpectedValue", "UnexpectedNumberOfColumns"}
    THEN NoSource
    ELSE SomeSource(e.cause)

\* variant of the raw-row strategy that keeps the present entries only
ValueRow_try_from_row_present(vs, sch) ==
    [result |-> OkRow(SelectSeq(vs, LAMBDA e : e.some)), calls |-> <<>>]

\* impl TryFromValueRow for ValueRow
ValueRow_try_from_row(vs, sch) == [result |-> OkRow(vs), calls |-> <<>>]

\* impl TryFromValueRow for ()
Unit_try_from_row(vs, sch) == [result |-> Err(UnexpectedValue), calls |-> <<>>]

\* Vec::pop on the row: the last entry, if there is one
Pop(vs) ==
    IF Len(vs) = 0 THEN [popped |-> FALSE] ELSE [popped |-> TRUE, v |-> vs[Len(vs)]]

\* variant of the length check that lets the empty row through
ScalarArityMismatch_gt(vs) == Len(vs) > 1

ScalarArityMismatch(vs) == Len(vs) # 1

\* variant of the single-scalar strategy that also checks the schema's length
Scalar_try_from_row_schema(ty, vs, sch) ==
    IF Len(vs) # 1 \/ Len(sch) # 1
    THEN [result |-> Err(UnexpectedNumberOfColumns(1, Len(vs))), calls |-> <<>>]
    ELSE LET r == TryFromValue(ty, vs[1]) IN
         [result |-> IF r.ok THEN OkScalar(r.val) ELSE Err(ValueConvertError(r.err)),
          calls |-> <<[pos |-> 0, ty |-> ty, v |-> vs[1]]>>]

\* impl<T: TryFromValue> TryFromValueRow for T
Scalar_try_from_row(ty, vs, sch) ==
    IF ScalarArityMismatch(vs)
    THEN [result |-> Err(UnexpectedNumberOfColumns(1, Len(vs))), calls |-> <<>>]
    ELSE LET p == Pop(vs) IN
         IF ~p.popped
         THEN [result |-> Err(UnexpectedNullValue("Value")), calls |-> <<>>]
         ELSE LET r == TryFromValue(ty, p.v) IN
              [result |-> IF r.ok THEN OkScalar(r.val) ELSE Err(ValueConvertError(r.err)),
               calls |-> <<[pos |-> Len(vs) - 1, ty |-> ty, v |-> p.v]>>]

-----------------------------------------------------------------------------
(* RowConvertTupleError and the tuple strategy generated by try_from_tuple! *)

TupleUnexpectedNumberOfColumns(e, t) ==
    [enum |-> "RowConvertTupleError", variant |-> "UnexpectedNumberOfColumns",
     expected |-> e, tuple |-> t]
TupleValueConvertError(e) ==
    [enum |-> "RowConvertTupleError", variant |-> "ValueConvertError", cause |-> e]

\* impl Error for RowConvertTupleError
RowConvertTupleError_source(e) ==
    IF e.variant = "UnexpectedNumberOfColumns" THEN NoSource ELSE SomeSource(e.cause)

\* macro count!
RECURSIVE count(_)
count(xs) == IF xs = <<>> THEN 0 ELSE 1 + count(Tail(xs))

\* `as u16` on a usize
AsU16(n) == n % U16Modulus

\* variant of the length check that accepts rows longer than the tuple
TupleArityMismatch_lt(vs, tys) == Len(vs) < count(tys)

\* variant of the length check that accepts rows shorter than the tuple
TupleArityMismatch_gt(vs, tys) == Len(vs) > count(tys)

TupleArityMismatch(vs, tys) == Len(vs) # count(tys)

\* variant of the tuple expression that takes the entries from the back
RECURSIVE TuplePositions_back(_, _, _, _, _)
TuplePositions_back(tys, it, taken, acc, log) ==
    IF tys = <<>>
    THEN [result |-> OkTuple(acc), calls |-> log]
    ELSE IF it = <<>>
         THEN [result |-> Panic, calls |-> log]
         ELSE LET last == it[Len(it)]
                  r == TryFromValue(Head(tys), last)
                  log2 == Append(log, [pos |-> taken, ty |-> Head(tys), v |-> last])
              IN  IF r.ok
                  THEN TuplePositions_back(Tail(tys), SubSeq(it, 1, Len(it) - 1),
                                           taken + 1, Append(acc, r.val), log2)
                  ELSE [result |-> Err(TupleValueConvertError(r.err)), calls |-> log2]

\* variant of the tuple expression that converts every position before it
\* reports the first failure
RECURSIVE TuplePositions_all(_, _, _, _, _)
TuplePositions_all(tys, it, taken, acc, log) ==
    IF tys = <<>>
    THEN [result |-> OkTuple(acc), calls |-> log]
    ELSE IF it = <<>>
         THEN [result |-> Panic, calls |-> log]
         ELSE LET r == TryFromValue(Head(tys), Head(it))
                  log2 == Append(log, [pos |-> taken, ty |-> Head(tys), v |-> Head(it)])
                  rest == TuplePositions_all(Tail(tys), Tail(it), taken + 1,
                                             IF r.ok THEN Append(acc, r.val) ELSE acc,
                                             log2)
              IN  IF r.ok
                  THEN rest
                  ELSE [result |-> Err(TupleValueConvertError(r.err)),
                        calls |-> rest.calls]

\* the positions of the tuple expression, evaluated left to right over the
\* iterator `it`; `taken` entries have been consumed, `acc` is the tuple so far
RECURSIVE TuplePositions(_, _, _, _, _)
TuplePositions(tys, it, taken, acc, log) ==
    IF tys = <<>>
    THEN [result |-> OkTuple(acc), calls |-> log]
    ELSE IF it = <<>>
         THEN [result |-> Panic, calls |-> log]
         ELSE LET r == TryFromValue(Head(tys), Head(it))
                  log2 == Append(log, [pos |-> taken, ty |-> Head(tys), v |-> Head(it)])
              IN  IF r.ok
                  THEN TuplePositions(Tail(tys), Tail(it), taken + 1,
                                      Append(acc, r.val), log2)
                  ELSE [result |-> Err(TupleValueConvertError(r.err)), calls |-> log2]

\* impl TryFromValueRow for ($($T,)+)
Tuple_try_from_row(tys, vs, sch) ==
    IF TupleArityMismatch(vs, tys)
    THEN [result |-> Err(TupleUnexpectedNumberOfColumns(AsU16(Len(vs)), tys)),
          calls |-> <<>>]
    ELSE TuplePositions(tys, vs, 0, <<>>, <<>>)

\* the implementation the target type selects
try_from_row(tg, vs, sch) ==
    CASE tg.strategy = "ValueRow" -> ValueRow_try_from_row(vs, sch)
      [] tg.strategy = "Unit" -> Unit_try_from_row(vs, sch)
      [] tg.strategy = "Scalar" -> Scalar_try_from_row(tg.ty, vs, sch)
      [] tg.strategy = "Tuple" -> Tuple_try_from_row(tg.tys, vs, sch)

-----------------------------------------------------------------------------
(* State machine: one conversion call, then inspection of the error source *)

Init ==
    /\ values \in ValueRow
    /\ schema \in Schemas
    /\ target \in Targets
    /\ result = Pending
    /\ calls = <<>>
    /\ src = NoSource
    /\ pc = "call"

Return(r) ==
    /\ result' = r.result
    /\ calls' = r.calls
    /\ pc' = "done"
    /\ UNCHANGED <<values, schema, target, src>>

TryFromRowValueRow ==
    /\ pc = "call"
    /\ target.strategy = "ValueRow"
    /\ Return(ValueRow_try_from_row(values, schema))

TryFromRowUnit ==
    /\ pc = "call"
    /\ target.strategy = "Unit"
    /\ Return(Unit_try_from_row(values, schema))

TryFromRowScalar ==
    /\ pc = "call"
    /\ target.strategy = "Scalar"
    /\ Return(Scalar_try_from_row(target.ty, values, schema))

TryFromRowTuple ==
    /\ pc = "call"
    /\ target.strategy = "Tuple"
    /\ Return(Tuple_try_from_row(target.tys, values, schema))

\* the caller asks the returned error for its source
ErrorSource ==
    /\ pc = "done"
    /\ result.tag = "Err"
    /\ src' = IF result.err.enum = "RowConvertError"
              THEN RowConvertError_source(result.err)
              ELSE RowConvertTupleError_source(result.err)
    /\ pc' = "sourced"
    /\ UNCHANGED <<values, schema, target, result, calls>>

Next ==
    \/ TryFromRowValueRow
    \/ TryFromRowUnit
    \/ TryFromRowScalar
    \/ TryFromRowTuple
    \/ ErrorSource

Spec == Init /\ [][Next]_vars

Returned == pc \in {"done", "sourced"}

-----------------------------------------------------------------------------
(* Properties.                                                             *)

IsValueRow == target.strategy = "ValueRow"
IsUnit == target.strategy = "Unit"
IsScalar == target.strategy = "Scalar"
IsTuple == target.strategy = "Tuple"

\* arity of the tuple target
Arity == Len(target.tys)

\* the scalar conversion of row entry i (1-based) to the type of position i
Slot(i) == TryFromValue(target.tys[i], values[i])

\* the 1-based positions of a row of matching length whose conversion fails
Failing == {i \in 1..Arity : ~Slot(i).ok}

FirstFailing == CHOOSE k \in Failing : \A j \in Failing : k <= j

\* C1 as stated: conversion to an N-tuple succeeds if and only if the row has
\* exactly N columns.
C1_SucceedsIffArity ==
    (Returned /\ IsTuple) => ((result.tag = "Ok") <=> (Len(values) = Arity))

\* C1 amended: conversion to an N-tuple succeeds if and only if the row has
\* exactly N columns and the scalar conversion of every position succeeds.
C1_SucceedsIffArityAndSlots ==
    (Returned /\ IsTuple) =>
        ((result.tag = "Ok") <=>
            (Len(values) = Arity /\ \A i \in 1..Arity : Slot(i).ok))

\* a row of the tuple's arity was rejected because of one of its entries
C1_Witness ==
    /\ Returned /\ IsTuple
    /\ Len(values) = Arity
    /\ result.tag = "Err"

\* C2: on success tuple position i holds the scalar conversion of row entry i,
\* an optional position holds None for an absent entry and Some(converted
\* value) for a present one.
C2_Positional ==
    (Returned /\ IsTuple /\ result.tag = "Ok") =>
        /\ Len(result.tuple) = Arity
        /\ \A i \in 1..Arity :
            /\ result.tuple[i] = Slot(i).val
            /\ result.tuple[i].ty = target.tys[i]
            /\ target.tys[i].opt =>
                IF values[i].some
                THEN /\ ~result.tuple[i].none
                     /\ result.tuple[i].n = values[i].n
                ELSE result.tuple[i] = Absent(target.tys[i])

\* a tuple was built from a row with an absent and a different present entry
C2_Witness ==
    /\ Returned /\ IsTuple /\ result.tag = "Ok"
    /\ \E i, j \in 1..Arity :
        /\ i < j
        /\ target.tys[i].opt /\ values[i].some
        /\ target.tys[j].opt /\ ~values[j].some
        /\ target.tys[i] # target.tys[j]

\* C3: a one-column row holding NULL converts to the empty value for an
\* optional target and fails with RowConvertError::UnexpectedNullValue naming
\* the target type for the bare target.
C3_NullScalar ==
    (Returned /\ IsScalar /\ values = <<None>>) =>
        IF target.ty.opt
        THEN result = OkScalar(Absent(target.ty))
        ELSE result = Err(UnexpectedNullValue(target.ty.base))

\* C4: the single-scalar strategy rejects every row whose length is not 1 with
\* UnexpectedNumberOfColumns { expected: 1, got: length } and converts nothing.
C4_ScalarArity ==
    (Returned /\ IsScalar /\ Len(values) # 1) =>
        /\ result = Err(UnexpectedNumberOfColumns(1, Len(values)))
        /\ calls = <<>>

\* the empty row was rejected by the single-scalar strategy
C4_Witness ==
    /\ Returned /\ IsScalar
    /\ values = <<>>
    /\ result.tag = "Err"

\* C5: the raw-row target always succeeds with the input row unchanged.
C5_Identity ==
    (Returned /\ IsValueRow) =>
        /\ result.tag = "Ok"
        /\ Len(result.row) = Len(values)
        /\ \A i \in 1..Len(values) : result.row[i] = values[i]

\* a row mixing different present entries and an absent one was returned
C5_Witness ==
    /\ Returned /\ IsValueRow
    /\ Len(values) = 3
    /\ values[1].some /\ ~values[2].some /\ values[3].some
    /\ values[1] # values[3]
    /\ result.tag = "Ok"

\* C6: a failing scalar conversion of the one present entry is returned as
\* ValueConvertError wrapping its cause, source() of that error is the cause,
\* and the other variants of RowConvertError have no source.
C6_CauseKept ==
    /\ (Returned /\ IsScalar /\ Len(values) = 1 /\ values[1].some
            /\ ~TryFromValue(target.ty, values[1]).ok) =>
        result = Err(ValueConvertError(TryFromValue(target.ty, values[1]).err))
    /\ (pc = "sourced" /\ result.err.enum = "RowConvertError") =>
        IF result.err.variant = "ValueConvertError"
        THEN src = SomeSource(result.err.cause)
        ELSE src = NoSource
    /\ (pc = "sourced" /\ IsScalar /\ Len(values) = 1 /\ values[1].some) =>
        src = SomeSource(TryFromValue(target.ty, values[1]).err)
    /\ \A t \in {"Value", "i64", "u64", "bool"} :
        RowConvertError_source(UnexpectedNullValue(t)) = NoSource

\* the source of a failed conversion of a present entry was inspected
C6_Witness ==
    /\ pc = "sourced" /\ IsScalar
    /\ values = <<Integer(-666)>>
    /\ src.present
    /\ src.cause.variant = "ValueOutOfRange"

\* C7: on a row of length L different from the arity the tuple strategy fails
\* with UnexpectedNumberOfColumns whose `expected` is L, for every L, and
\* whose `tuple` is the tuple type.
C7_ExpectedIsLength ==
    (Returned /\ IsTuple /\ Len(values) # Arity) =>
        result = Err(TupleUnexpectedNumberOfColumns(Len(values), target.tys))

\* C8: on a row of matching length the positions are converted in increasing
\* order; the first failing position k ends the call with ValueConvertError
\* wrapping its cause, no later position is converted and no tuple returned.
C8_FailFast ==
    (Returned /\ IsTuple /\ Len(values) = Arity) =>
        /\ \A c \in 1..Len(calls) :
            calls[c] = [pos |-> c - 1, ty |-> target.tys[c], v |-> values[c]]
        /\ IF Failing = {}
           THEN Len(calls) = Arity /\ result.tag = "Ok"
           ELSE /\ Len(calls) = FirstFailing
                /\ result = Err(TupleValueConvertError(Slot(FirstFailing).err))

\* a conversion failed at an inner position of a wide tuple
C8_Witness ==
    /\ Returned /\ IsTuple
    /\ Arity = MaxArity /\ Len(values) = Arity
    /\ Failing # {}
    /\ 1 < FirstFailing /\ FirstFailing < Arity
    /\ result.tag = "Err"

\* C9: the result of every built-in strategy is the same for every schema.
C9_SchemaIgnored ==
    Returned =>
        \A s \in Schemas : try_from_row(target, values, s).result = result

\* a conversion succeeded under a schema whose length differs from the row's
C9_Witness ==
    /\ Returned /\ (IsTuple \/ IsScalar)
    /\ Len(schema) # Len(values)
    /\ result.tag = "Ok"

\* C10: no call panics: the tuple strategy never unwraps an exhausted
\* iterator and the single-scalar strategy never pops an empty row, so
\* UnexpectedNullValue("Value") is never returned.
C10_NoPanic ==
    Returned =>
        /\ result.tag \in {"Ok", "Err"}
        /\ result # Err(UnexpectedNullValue("Value"))
        /\ (result.tag = "Err" /\ result.err.enum = "RowConvertError")
                => result.err.variant # "UnexpectedNullValue"

\* all twelve positions of the widest tuple were taken from the iterator
C10_Witness ==
    /\ Returned /\ IsTuple
    /\ Arity = MaxArity
    /\ Len(calls) = MaxArity
    /\ result.tag = "Ok"

====
